---- MODULE Spec2Model ----
(***************************************************************************)
(* Model of edge_tts/submaker.py: FilteredText (a text, its filtered       *)
(* projection and the two index maps) and SubMaker (word-boundary events   *)
(* accumulated against a prompt, and the cue generation of get_srt).       *)
(*                                                                         *)
(* A Python str is a sequence of one-character strings; its indices are    *)
(* 0-based in the source and 1-based in Sequences, so s[i] of the source   *)
(* is s[i + 1] here.  A Python dict is a function on the set of its keys.  *)
(***************************************************************************)
EXTENDS Integers, Sequences, FiniteSets, TLC

VARIABLES
    full_prompt,            \* SubMaker.full_prompt
    word_boundary_offset,   \* SubMaker.word_boundary_offset
    word_boundary_text,     \* SubMaker.word_boundary_text
    word_boundary_chars,    \* SubMaker.word_boundary_chars
    call,                   \* the most recent SubMaker call and its arguments
    ret,                    \* what that call returned (and the locals of its loop)
    ft,                     \* a FilteredText object driven directly by a caller
    filter_calls,           \* number of filter_text calls made on ft
    filter_chars            \* the retain set of the latest filter_text call on ft

vars == <<full_prompt, word_boundary_offset, word_boundary_text,
          word_boundary_chars, call, ret, ft, filter_calls, filter_chars>>

submaker_vars == <<full_prompt, word_boundary_offset, word_boundary_text,
                   word_boundary_chars, call, ret>>

ft_vars == <<ft, filter_calls, filter_chars>>

----------------------------------------------------------------------------
(* Bounds of the exploration.                                              *)

MaxPromptLen == 2
MaxEvents == 2
MaxTextLen == 3
MaxFilterCalls == 2

SPACE == " "
COMMA == ","

Alphabet == {"a", "b", COMMA}

Words == { <<>>, <<"a">>, <<"b">>, <<"b", "a">>, <<"a", COMMA, SPACE>> }

RECURSIVE StringsUpTo(_, _)
StringsUpTo(alphabet, n) ==
    IF n = 0 THEN { <<>> }
    ELSE LET shorter == StringsUpTo(alphabet, n - 1)
         IN  shorter \cup { Append(s, c) : s \in shorter, c \in alphabet }

HelloPrompt ==
    << "H", "e", "l", "l", "o", ",", " ", "w", "o", "r", "l", "d", "!", " ",
       "N", "i", "c", "e", " ", "d", "a", "y", "." >>

HelloEvents ==
    << << 0, 1000000, <<"H", "e", "l", "l", "o">> >>,
       << 1000000, 1000000, <<"w", "o", "r", "l", "d">> >>,
       << 2000000, 1000000, <<"N", "i", "c", "e">> >>,
       << 3000000, 1000000, <<"d", "a", "y">> >> >>

RunPrompt ==
    << "r", "u", "n", " ", "r", "u", "n", " ", "a", "w", "a", "y" >>

RunEvents ==
    << << 0, 1000000, <<"r", "u", "n">> >>,
       << 1000000, 1000000, <<"r", "u", "n">> >>,
       << 2000000, 1000000, <<"a", "w", "a", "y">> >> >>

Prompts == StringsUpTo(Alphabet, MaxPromptLen) \cup {HelloPrompt, RunPrompt}

\* The events a caller may append next, as <<offset, duration, text>>.
NextEvents(prompt, n) ==
    IF prompt = HelloPrompt
    THEN (IF n < Len(HelloEvents) THEN {HelloEvents[n + 1]} ELSE {})
    ELSE IF prompt = RunPrompt
    THEN (IF n < Len(RunEvents) THEN {RunEvents[n + 1]} ELSE {})
    ELSE IF n < MaxEvents
    THEN { <<n * 1000000, 1000000, t>> : t \in Words }
    ELSE {}

WordsInCueValues == (0 - 1) .. (MaxEvents + 1)

----------------------------------------------------------------------------
(* Python built-ins used by the source.                                    *)

Max(a, b) == IF a >= b THEN a ELSE b

Min(a, b) == IF a <= b THEN a ELSE b

\* set(text): the characters of a string
CharsOf(s) == { s[k] : k \in 1 .. Len(s) }

\* dict.get(key, default)
DictGet(m, key, default) == IF key \in DOMAIN m THEN m[key] ELSE default

\* m[key] = value
DictSet(m, key, value) ==
    [k \in (DOMAIN m) \cup {key} |-> IF k = key THEN value ELSE m[k]]

EmptyDict == [k \in {} |-> 0]

\* a slice bound as Python normalises it for a sequence of length n
SliceBound(k, n) == IF k < 0 THEN Max(k + n, 0) ELSE Min(k, n)

\* s[a:b]
Slice(s, a, b) == SubSeq(s, SliceBound(a, Len(s)) + 1, SliceBound(b, Len(s)))

\* s.find(sub, start): lowest index >= start where sub occurs, -1 if none
Find(s, sub, start) ==
    LET from == IF start < 0 THEN Max(start + Len(s), 0) ELSE start
        hits == { p \in from .. (Len(s) - Len(sub)) :
                    SubSeq(s, p + 1, p + Len(sub)) = sub }
    IN  IF from > Len(s) \/ hits = {} THEN 0 - 1
        ELSE CHOOSE p \in hits : \A q \in hits : p <= q

\* s.replace(ch, "") for a one-character ch
Remove(s, ch) == SelectSeq(s, LAMBDA c : c # ch)

\* "".join(texts[a:b])
RECURSIVE Join(_)
Join(texts) == IF texts = <<>> THEN <<>> ELSE Head(texts) \o Join(Tail(texts))

MicrosecondsUnscaled(ticks) == ticks

\* timedelta(microseconds = ticks / 10): whole microseconds, ties to even
Microseconds(ticks) ==
    LET q == ticks \div 10
        r == ticks % 10
    IN  IF r < 5 THEN q
        ELSE IF r > 5 THEN q + 1
        ELSE IF q % 2 = 0 THEN q ELSE q + 1

----------------------------------------------------------------------------
(* class FilteredText                                                      *)

\* FilteredText.__init__ ; ftext_none stands for ftext = None
FilteredText(text) ==
    [otext |-> text, ftext |-> <<>>, ftext_none |-> TRUE,
     f_to_o_map |-> EmptyDict, o_to_f_map |-> EmptyDict]

keep_char_shifted(self, i, char) ==
    LET ftext == Append(self.ftext, char)
    IN  [self EXCEPT !.ftext = ftext,
                     !.f_to_o_map = DictSet(@, Len(ftext) - 1, i),
                     !.o_to_f_map = DictSet(@, i, Len(ftext))]

\* body of the `if char in filter_chars` branch of filter_text
keep_char(self, i, char) ==
    LET ftext == Append(self.ftext, char)
    IN  [self EXCEPT !.ftext = ftext,
                     !.f_to_o_map = DictSet(@, Len(ftext) - 1, i),
                     !.o_to_f_map = DictSet(@, i, Len(ftext) - 1)]

\* the for loop of filter_text, from index i on
RECURSIVE filter_loop(_, _, _)
filter_loop(self, chars, i) ==
    IF i >= Len(self.otext) THEN self
    ELSE IF self.otext[i + 1] \in chars
    THEN filter_loop(keep_char(self, i, self.otext[i + 1]), chars, i + 1)
    ELSE filter_loop(self, chars, i + 1)

\* FilteredText.filter_text: ftext is reset, the two maps are not
filter_text(self, chars) ==
    filter_loop([self EXCEPT !.ftext = <<>>, !.ftext_none = FALSE], chars, 0)

get_original_index(self, filtered_index, default) ==
    DictGet(self.f_to_o_map, filtered_index, default)

get_filtered_index(self, original_index, default) ==
    DictGet(self.o_to_f_map, original_index, default)

----------------------------------------------------------------------------
(* class SubMaker                                                          *)

NoCall == [op |-> "__init__", timestamp |-> <<0, 0>>, text |-> <<>>,
           words_in_cue |-> 0]

\* the value of a call that returns None
NoneRet == [kind |-> "None", cues |-> <<>>, locals |-> <<>>,
            filtered_text |-> FilteredText(<<>>), error |-> "none"]

offset_pair_raw(timestamp) == <<timestamp[1], timestamp[2]>>

\* the tuple appended to word_boundary_offset by add_cue_part
offset_pair(timestamp) == <<timestamp[1], timestamp[1] + timestamp[2]>>

\* the two discard calls of make_filtered_text
discard_chars(chars) == chars \ {SPACE, COMMA}

clamp_upper_only(words_in_cue, n_events) == Min(words_in_cue, n_events)

\* words_in_cue = max(1, min(words_in_cue, len(self.word_boundary_offset)))
clamp_words_in_cue(words_in_cue, n_events) ==
    Max(1, Min(words_in_cue, n_events))

\* text of a group: joined, then spaces and commas removed
group_text(texts, i, i_end) ==
    Remove(Remove(Join(SubSeq(texts, i + 1, i + i_end)), SPACE), COMMA)

find_from_start(ftext, text, last_filtered_index) ==
    Find(ftext, text, 0) + Len(text) - 1

\* fend_index = ftext.find(text, last_filtered_index) + len(text) - 1
find_end(ftext, text, last_filtered_index) ==
    Find(ftext, text, last_filtered_index) + Len(text) - 1

\* last_filtered_index = fend_index + 1
advance_cursor(fend_index) == fend_index + 1

cue_content_exclusive(prompt, start_index, end_index) ==
    Slice(prompt, start_index, end_index)

\* content = self.full_prompt[start_index : end_index + 1]
cue_content(prompt, start_index, end_index) ==
    Slice(prompt, start_index, end_index + 1)

\* one iteration of the loop of get_cue_data: its locals and the Subtitle
cue_group(prompt, offsets, texts, filtered_text, words_in_cue, i, last_filtered_index) ==
    LET i_end == Min(words_in_cue, Len(offsets) - i)
        start_time == offsets[i + 1][1]
        end_time == offsets[i + i_end][2]
        text == group_text(texts, i, i_end)
        fend_index == find_end(filtered_text.ftext, text, last_filtered_index)
        end_index == get_original_index(filtered_text, fend_index,
                                        Len(prompt) - 1)
        start_index == get_original_index(filtered_text, last_filtered_index, 0)
    IN  [i |-> i,
         i_end |-> i_end,
         text |-> text,
         match_start |-> Find(filtered_text.ftext, text, last_filtered_index),
         fend_index |-> fend_index,
         end_index |-> end_index,
         start_index |-> start_index,
         cursor_before |-> last_filtered_index,
         cursor_after |-> advance_cursor(fend_index),
         subtitle |-> [index |-> i + 1,
                       start |-> Microseconds(start_time),
                       end |-> Microseconds(end_time),
                       content |-> cue_content(prompt, start_index, end_index)]]

\* the generator get_cue_data, from event index i and cursor value on
RECURSIVE get_cue_data(_, _, _, _, _, _, _)
get_cue_data(prompt, offsets, texts, filtered_text, words_in_cue, i, last_filtered_index) ==
    IF i >= Len(offsets) THEN <<>>
    ELSE LET g == cue_group(prompt, offsets, texts, filtered_text,
                            words_in_cue, i, last_filtered_index)
         IN  <<g>> \o get_cue_data(prompt, offsets, texts, filtered_text,
                                   words_in_cue, i + words_in_cue,
                                   g.cursor_after)

\* range(0, n, step): a zero step raises ValueError, a negative one is empty
cue_locals(prompt, offsets, texts, filtered_text, step) ==
    IF step <= 0 THEN <<>>
    ELSE get_cue_data(prompt, offsets, texts, filtered_text, step, 0, 0)

\* SubMaker.add_cue_part
add_cue_part(timestamp, text) ==
    /\ word_boundary_offset' = Append(word_boundary_offset,
                                      offset_pair(timestamp))
    /\ word_boundary_text' = Append(word_boundary_text, text)
    /\ word_boundary_chars' = word_boundary_chars \cup CharsOf(text)
    /\ call' = [op |-> "add_cue_part", timestamp |-> timestamp,
                text |-> text, words_in_cue |-> 0]
    /\ ret' = NoneRet
    /\ UNCHANGED full_prompt
    /\ UNCHANGED ft_vars

\* SubMaker.make_filtered_text
make_filtered_text ==
    LET chars == discard_chars(word_boundary_chars)
    IN  /\ word_boundary_chars' = chars
        /\ call' = [op |-> "make_filtered_text", timestamp |-> <<0, 0>>,
                    text |-> <<>>, words_in_cue |-> 0]
        /\ ret' = [kind |-> "FilteredText", cues |-> <<>>, locals |-> <<>>,
                   filtered_text |-> filter_text(FilteredText(full_prompt),
                                                 chars),
                   error |-> "none"]
        /\ UNCHANGED <<full_prompt, word_boundary_offset, word_boundary_text>>
        /\ UNCHANGED ft_vars

\* SubMaker.get_srt; the cue records are what is handed to srt.compose
get_srt(words_in_cue) ==
    LET chars == discard_chars(word_boundary_chars)
        filtered_text == filter_text(FilteredText(full_prompt), chars)
        step == clamp_words_in_cue(words_in_cue, Len(word_boundary_offset))
        locals == cue_locals(full_prompt, word_boundary_offset,
                             word_boundary_text, filtered_text, step)
    IN  /\ word_boundary_chars' = chars
        /\ call' = [op |-> "get_srt", timestamp |-> <<0, 0>>, text |-> <<>>,
                    words_in_cue |-> words_in_cue]
        /\ ret' = [kind |-> "srt",
                   cues |-> [k \in 1 .. Len(locals) |-> locals[k].subtitle],
                   locals |-> locals,
                   filtered_text |-> filtered_text,
                   error |-> IF step = 0 THEN "ValueError" ELSE "none"]
        /\ UNCHANGED <<full_prompt, word_boundary_offset, word_boundary_text>>
        /\ UNCHANGED ft_vars

\* a caller filters the FilteredText object ft (again) with a retain set
FilterText(chars) ==
    /\ filter_calls < MaxFilterCalls
    /\ ft' = filter_text(ft, chars)
    /\ filter_calls' = filter_calls + 1
    /\ filter_chars' = chars
    /\ UNCHANGED submaker_vars

----------------------------------------------------------------------------
(* Specifications.                                                         *)

\* SubMaker(full_prompt) just constructed
Init ==
    /\ full_prompt \in Prompts
    /\ word_boundary_offset = <<>>
    /\ word_boundary_text = <<>>
    /\ word_boundary_chars = {}
    /\ call = NoCall
    /\ ret = NoneRet
    /\ ft = FilteredText(<<>>)
    /\ filter_calls = 0
    /\ filter_chars = {}

AddCuePart ==
    \E e \in NextEvents(full_prompt, Len(word_boundary_offset)) :
        add_cue_part(<<e[1], e[2]>>, e[3])

MakeFilteredText == make_filtered_text

GetSrt == \E w \in WordsInCueValues : get_srt(w)

Next == AddCuePart \/ MakeFilteredText \/ GetSrt

Spec == Init /\ [][Next]_vars

\* FilteredText(text) just constructed
InitFT ==
    /\ full_prompt = <<>>
    /\ word_boundary_offset = <<>>
    /\ word_boundary_text = <<>>
    /\ word_boundary_chars = {}
    /\ call = NoCall
    /\ ret = NoneRet
    /\ ft \in { FilteredText(t) : t \in StringsUpTo(Alphabet, MaxTextLen) }
    /\ filter_calls = 0
    /\ filter_chars = {}

NextFT == \E chars \in SUBSET Alphabet : FilterText(chars)

SpecFT == InitFT /\ [][NextFT]_vars

----------------------------------------------------------------------------
(* Properties.                                                             *)

SrtDone == ret.kind = "srt"

NumEvents == Len(word_boundary_offset)

\* every group of the last get_srt pass was found by the substring search
AllMatched == \A k \in DOMAIN ret.locals : ret.locals[k].match_start # 0 - 1

LastGroup == ret.locals[Len(ret.locals)]

\* text occurs in the filtered prompt at filtered index p
OccursAt(text, p) ==
    /\ p >= 0
    /\ p + Len(text) <= Len(ret.filtered_text.ftext)
    /\ SubSeq(ret.filtered_text.ftext, p + 1, p + Len(text)) = text

\* original index o lies inside the content of cue k
InCue(o, k) ==
    /\ ret.locals[k].start_index <= o
    /\ o < ret.locals[k].start_index + Len(ret.cues[k].content)

\* C1: every group whose match text is not found at or after the cursor gets
\* end_index = len(full_prompt) - 1, whatever the length of the text.
C1_UnmatchedEndsAtPromptEnd ==
    SrtDone =>
        \A k \in DOMAIN ret.locals :
            ret.locals[k].match_start = 0 - 1
                => ret.locals[k].end_index = Len(full_prompt) - 1

\* C2: word_boundary_chars is always exactly the set of the characters of all
\* word texts added so far, space and comma included.
C2_CharsAreAllWordChars ==
    word_boundary_chars =
        UNION { CharsOf(word_boundary_text[k]) : k \in DOMAIN word_boundary_text }

\* C3: after a second filter_text call the object equals a fresh FilteredText
\* filtered once with the latest retain set, and both lookups return the
\* default outside the filtered text / for characters not retained.
C3_SecondFilterReplacesState ==
    filter_calls >= 2 =>
        /\ ft = filter_text(FilteredText(ft.otext), filter_chars)
        /\ \A j \in (0 - 1) .. (Len(ft.otext) + 1) :
              (j < 0 \/ j >= Len(ft.ftext))
                  => get_original_index(ft, j, 0 - 7) = 0 - 7
        /\ \A o \in 0 .. (Len(ft.otext) - 1) :
              ft.otext[o + 1] \notin filter_chars
                  => get_filtered_index(ft, o, 0 - 7) = 0 - 7

HelloCase ==
    /\ SrtDone
    /\ full_prompt = HelloPrompt
    /\ NumEvents = 4
    /\ call.words_in_cue = 2

Millis(microseconds) == microseconds \div 1000

HelloTimes ==
    /\ Len(ret.cues) = 2
    /\ Millis(ret.cues[1].start) = 0
    /\ Millis(ret.cues[1].end) = 200
    /\ Millis(ret.cues[2].start) = 200
    /\ Millis(ret.cues[2].end) = 400

\* C4 as stated: in the "Hello, world! Nice day." scenario cue 1 is
\* "Hello, world!" and cue 2 is " Nice day.", with times 0-200 ms, 200-400 ms.
C4_HelloWithTrailingPunctuation ==
    HelloCase =>
        /\ HelloTimes
        /\ ret.cues[1].content =
              << "H", "e", "l", "l", "o", ",", " ", "w", "o", "r", "l", "d", "!" >>
        /\ ret.cues[2].content =
              << " ", "N", "i", "c", "e", " ", "d", "a", "y", "." >>

\* C4 amended: in that scenario get_srt emits exactly two cues, cue 1
\* "Hello, world" (0 ms to 200 ms) and cue 2 "Nice day" (200 ms to 400 ms):
\* each cue runs from its first to its last matched character.
C4_HelloScenario ==
    HelloCase =>
        /\ HelloTimes
        /\ ret.cues[1].content =
              << "H", "e", "l", "l", "o", ",", " ", "w", "o", "r", "l", "d" >>
        /\ ret.cues[2].content = << "N", "i", "c", "e", " ", "d", "a", "y" >>

C4_Witness == HelloCase /\ Len(ret.cues) = 2

\* C5: get_srt never fails and yields ceil(M / N) cue records, N being
\* words_in_cue clamped to [1, M]; zero cues when there are no events.
C5_CueCount ==
    SrtDone =>
        LET M == NumEvents
            w == call.words_in_cue
            N == IF w > M THEN (IF M < 1 THEN 1 ELSE M)
                 ELSE IF w < 1 THEN 1 ELSE w
        IN  /\ ret.error = "none"
            /\ Len(ret.cues) = (M + N - 1) \div N
            /\ (M = 0 => Len(ret.cues) = 0)

C5_Witness ==
    /\ SrtDone
    /\ NumEvents = 3
    /\ call.words_in_cue = 2
    /\ Len(ret.cues) = 2

\* C6: after one filter_text call the two maps are mutual inverses on the
\* retained characters, and get_filtered_index gives the default for an
\* original index whose character was filtered out.
C6_MapsAreInverses ==
    filter_calls = 1 =>
        /\ \A i \in 0 .. (Len(ft.ftext) - 1) :
              get_filtered_index(ft, get_original_index(ft, i, 0 - 1), 0 - 1) = i
        /\ \A o \in 0 .. (Len(ft.otext) - 1) :
              IF ft.otext[o + 1] \in filter_chars
              THEN get_original_index(ft, get_filtered_index(ft, o, 0 - 1),
                                      0 - 1) = o
              ELSE get_filtered_index(ft, o, 0 - 7) = 0 - 7

C6_Witness ==
    /\ filter_calls = 1
    /\ Len(ft.ftext) >= 2
    /\ Len(ft.ftext) < Len(ft.otext)

C8_AppendOnly ==
    /\ [](Len(word_boundary_offset) = Len(word_boundary_text))
    /\ [][IF call'.op = "add_cue_part"
          THEN /\ word_boundary_offset' =
                     Append(word_boundary_offset,
                            << call'.timestamp[1],
                               call'.timestamp[1] + call'.timestamp[2] >>)
               /\ word_boundary_text' = Append(word_boundary_text, call'.text)
          ELSE /\ word_boundary_offset' = word_boundary_offset
               /\ word_boundary_text' = word_boundary_text]_vars

C8_Witness ==
    /\ SrtDone
    /\ NumEvents = 2
    /\ word_boundary_offset[2] = <<1000000, 2000000>>
    /\ Len(ret.cues) = 2

\* C9: in one get_srt pass the cursor starts at 0 and its value after a group
\* is never below its value before that group, found or not.
C9_CursorNeverRewinds ==
    (SrtDone /\ ret.locals # <<>>) =>
        /\ ret.locals[1].cursor_before = 0
        /\ \A k \in DOMAIN ret.locals :
              ret.locals[k].cursor_after >= ret.locals[k].cursor_before

RunCase ==
    /\ SrtDone
    /\ full_prompt = RunPrompt
    /\ NumEvents = 3
    /\ call.words_in_cue = 1

RunSpans ==
    /\ Len(ret.cues) = 3
    /\ ret.locals[1].start_index = 0 /\ ret.locals[1].end_index = 2
    /\ ret.locals[2].start_index = 4 /\ ret.locals[2].end_index = 6
    /\ ret.locals[3].start_index = 8 /\ ret.locals[3].end_index = 11
    /\ ret.cues[1].content = <<"r", "u", "n">>
    /\ ret.cues[2].content = <<"r", "u", "n">>
    /\ ret.cues[3].content = <<"a", "w", "a", "y">>

\* each group is matched at the first occurrence at or after the end of the
\* previous group's match
MatchedAtFirstOccurrence ==
    \A k \in DOMAIN ret.locals :
        LET prev_end == IF k = 1 THEN 0
                        ELSE ret.locals[k - 1].match_start
                                 + Len(ret.locals[k - 1].text)
        IN  /\ ret.locals[k].match_start >= prev_end
            /\ OccursAt(ret.locals[k].text, ret.locals[k].match_start)
            /\ \A p \in prev_end .. (ret.locals[k].match_start - 1) :
                  ~OccursAt(ret.locals[k].text, p)

\* C10 as stated: when every group is matched, each is matched at the first
\* occurrence at or after the end of the previous match, the matched positions
\* strictly advance, and "run run away" gives the spans [0,2], [4,6], [8,11].
C10_PositionsStrictlyAdvance ==
    /\ (SrtDone /\ AllMatched) =>
          /\ MatchedAtFirstOccurrence
          /\ \A k \in 2 .. Len(ret.locals) :
                ret.locals[k].match_start > ret.locals[k - 1].match_start
    /\ RunCase => RunSpans

\* C10 amended: when every group is matched, each is matched at the first
\* occurrence at or after the end of the previous match; the matched position
\* strictly advances past every group whose match text is not empty (a group
\* with an empty match text matches at the cursor and leaves it in place);
\* "run run away" gives the spans [0,2], [4,6], [8,11].
C10_PositionsAdvance ==
    /\ (SrtDone /\ AllMatched) =>
          /\ MatchedAtFirstOccurrence
          /\ \A k \in 2 .. Len(ret.locals) :
                IF ret.locals[k - 1].text # <<>>
                THEN ret.locals[k].match_start > ret.locals[k - 1].match_start
                ELSE ret.locals[k].match_start >= ret.locals[k - 1].match_start
    /\ RunCase => RunSpans

C10_Witness == RunCase /\ AllMatched /\ ret.locals[2].match_start = 3

====
